---- MODULE Spec2Model ----
(***************************************************************************)
(* Model of the image preprocessing operations of                          *)
(* src-tauri/src/lib.rs: compress_image, detect_receipt_contour and        *)
(* analyze_image_quality.                                                  *)
(*                                                                         *)
(* Each call is a process with its own locals (loc[c]) and its own return  *)
(* slot (ret[c]); the code has no statics, so the calls share no data.     *)
(* What they do share is the build (overflowChecks) and the threads that   *)
(* poll their futures (threads), on which an unrelated request also runs.  *)
(*                                                                         *)
(* Numbers.  f32/f64 values are exact fractions.  The u32 accumulator of   *)
(* analyze_image_quality keeps its 32-bit width; TLC evaluates with 32-bit  *)
(* signed integers, so a value that may pass 2^31 is a "wide" number       *)
(* <<hi, lo>> = hi * 2^16 + lo with 0 <= lo < 2^16.                        *)
(*                                                                         *)
(* Library calls are modelled by their documented behaviour (image 0.24+,  *)
(* which write_with_encoder requires): DynamicImage::resize keeps the      *)
(* aspect ratio, JpegEncoder rejects a side above 65535.  A panic in a     *)
(* call ends that call only.                                               *)
(***************************************************************************)
EXTENDS Integers, Sequences, FiniteSets, TLC

(* ------------------------------ bounds --------------------------------- *)
\* sides of the small input images: 1..MaxSide
MaxSide == 4
\* values of Some(max_width) / Some(max_height): 0..MaxBound
MaxBound == 5
\* number of concurrent callers
NumCalls == 2

Calls == 1..NumCalls
\* the single caller of the sequential specification
Serial == {1}

(* --------------------------- wide numbers ------------------------------ *)
Limb == 2^16

Max(a, b) == IF a >= b THEN a ELSE b
Min(a, b) == IF a <= b THEN a ELSE b

WNorm(hi, lo) == <<hi + (lo \div Limb), lo % Limb>>
Wide(n) == WNorm(0, n)
WAdd(a, b) == WNorm(a[1] + b[1], a[2] + b[2])
\* k < 2^15 and a[1] * k < 2^31 at every use
WMul(a, k) == WNorm(a[1] * k, a[2] * k)
WDiv(a, k) == <<a[1] \div k, (((a[1] % k) * Limb) + a[2]) \div k>>
WLt(a, b) == a[1] < b[1] \/ (a[1] = b[1] /\ a[2] < b[2])
WMin(a, b) == IF WLt(b, a) THEN b ELSE a
\* the value as a u32: the low 32 bits
WrapU32(a) == <<a[1] % Limb, a[2]>>
FitsU32(a) == a[1] < Limb

(* ------------------------------ inputs --------------------------------- *)
\* Option<T>: None is <<>>, Some(v) is <<v>>
None == <<>>
Some(v) == <<v>>
IsSome(o) == o # <<>>
Unwrap(o) == o[1]
UnwrapOr(o, d) == IF IsSome(o) THEN o[1] ELSE d

Black == <<0, 0, 0>>
Dim == <<76, 77, 77>>
Gray == <<128, 128, 128>>
Bright == <<230, 230, 231>>
White == <<255, 255, 255>>
Colours == {Black, Dim, Gray, Bright, White}

\* A raster: w x h pixels; the first h \div 2 rows have colour top, the
\* other rows colour bot.
Raster(w, h, top, bot) == [w |-> w, h |-> h, top |-> top, bot |-> bot]
NoRaster == Raster(0, 0, Black, Black)

\* image_data: a base64 string.  kind "badb64" is not base64, "notimage" is
\* base64 of bytes no decoder recognises, "image" is base64 of an image file
\* of `size` bytes that decodes to `img`.
Payload(kind, size, img) == [kind |-> kind, size |-> size, img |-> img]
ImagePayload(w, h, top, bot) == Payload("image", 68 + (2 * w * h), Raster(w, h, top, bot))
BadBase64 == Payload("badb64", 0, NoRaster)
NotImage == Payload("notimage", 12, NoRaster)

\* an all-white photo of 4105 x 4105 pixels: 255 * 16851025 > 2^32 - 1
BigWhite == ImagePayload(4105, 4105, White, White)
\* the same size in mid-gray: 128 * 16851025 < 2^32
BigGray == ImagePayload(4105, 4105, Gray, Gray)
\* wider than a JPEG frame header can say
TooWide == ImagePayload(65536, 1, Gray, Gray)

SmallImages == {ImagePayload(w, h, Gray, Gray) : w \in 1..MaxSide, h \in 1..MaxSide}
MixedImages == {ImagePayload(2, 2, a, b) : a \in Colours, b \in Colours}
SpecialImages ==
    {ImagePayload(300, 150, Gray, Gray), ImagePayload(300, 310, Gray, Gray),
     ImagePayload(7, 2, Gray, Gray), BigWhite, BigGray, TooWide}

Payloads == {BadBase64, NotImage} \cup SmallImages \cup MixedImages \cup SpecialImages

Formats == {"jpeg", "jpg", "JPG", "png", "webp", "WebP", "gif"}

ImageCompressionOptions(mw, mh, q, f) ==
    [max_width |-> mw, max_height |-> mh, quality |-> q, format |-> f]

OptU32 == {None} \cup {Some(v) : v \in 0..MaxBound}
OptQuality == {None, Some(10)}
OptFormat == {None} \cup {Some(f) : f \in Formats}

AllOptions ==
    {ImageCompressionOptions(mw, mh, q, f) :
        mw \in OptU32, mh \in OptU32, q \in OptQuality, f \in OptFormat}
NoOptions == ImageCompressionOptions(None, None, None, None)

\* the inputs of the concurrent specification
FewPayloads ==
    {BadBase64, NotImage, ImagePayload(3, 2, Gray, Gray),
     ImagePayload(2, 2, White, Black), BigWhite}
FewOptions ==
    {NoOptions,
     ImageCompressionOptions(Some(2), Some(2), None, Some("png")),
     ImageCompressionOptions(Some(2), None, Some(10), Some("webp"))}

(* ------------------------------ state ---------------------------------- *)
VARIABLES
    overflowChecks, \* the build: TRUE = overflow-checks on (debug profile)
    pc,             \* pc[c]: the position of call c
    op,             \* op[c]: the operation call c runs
    arg,            \* arg[c]: its arguments
    loc,            \* loc[c]: its locals
    ret,            \* ret[c]: what it returned
    threads,        \* the number of threads that poll the futures
    request         \* the state of an unrelated request (a notification)

vars == <<overflowChecks, pc, op, arg, loc, ret, threads, request>>

Args(p, o) == [image_data |-> p, options |-> o]

Locals(bytes, size, img, ow, oh, tb, tp) ==
    [image_bytes |-> bytes, original_size |-> size, img |-> img,
     original_width |-> ow, original_height |-> oh,
     total_brightness |-> tb, total_pixels |-> tp]
NoLocals == Locals(0, 0, NoRaster, 0, 0, Wide(0), 0)

NoReturn == [tag |-> "none"]
Err(m) == [tag |-> "err", msg |-> m]
Panicked == [tag |-> "panic"]

ErrBase64 == "Failed to decode base64"
ErrLoad == "Failed to load image"
ErrJpeg == "Failed to encode JPEG"
ErrPng == "Failed to encode PNG"
ErrWebp == "WebP encoding not yet supported"
ErrFormat == "Unsupported format"

Init ==
    /\ overflowChecks \in BOOLEAN
    /\ pc = [c \in Calls |-> "idle"]
    /\ op = [c \in Calls |-> "none"]
    /\ arg = [c \in Calls |-> Args(BadBase64, NoOptions)]
    /\ loc = [c \in Calls |-> NoLocals]
    /\ ret = [c \in Calls |-> NoReturn]
    /\ threads = NumCalls
    /\ request = "none"

\* the futures are polled by one thread: a single-threaded event path
InitEvent ==
    /\ overflowChecks \in BOOLEAN
    /\ pc = [c \in Calls |-> "idle"]
    /\ op = [c \in Calls |-> "none"]
    /\ arg = [c \in Calls |-> Args(BadBase64, NoOptions)]
    /\ loc = [c \in Calls |-> NoLocals]
    /\ ret = [c \in Calls |-> NoReturn]
    /\ threads = 1
    /\ request = "none"

(* ----------------------- compress_image: helpers ----------------------- *)
\* str::to_lowercase on the format strings of the model
ToLowercase(f) ==
    CASE f = "JPG" -> "jpg"
      [] f = "WebP" -> "webp"
      [] OTHER -> f

\* a / b rounded half away from zero (f64::round), a >= 0, b > 0
RoundDiv(a, b) == ((2 * a) + b) \div (2 * b)
\* a / b cast to u32 (truncation), a >= 0, b > 0
TruncDiv(a, b) == a \div b

\* image::DynamicImage::resize(nwidth, nheight, _) keeps the aspect ratio:
\* the result is the largest size of the image's proportions that fits in
\* nwidth x nheight (ratio = min(nwidth/width, nheight/height), both sides
\* rounded and at least 1).
ResizeDimensions(width, height, nwidth, nheight) ==
    LET byWidth == nwidth * height <= nheight * width
        nw == IF byWidth THEN nwidth ELSE RoundDiv(width * nheight, height)
        nh == IF byWidth THEN RoundDiv(height * nwidth, width) ELSE nheight
    IN  <<Max(nw, 1), Max(nh, 1)>>

\* image::DynamicImage::resize_exact: the sides are set to the arguments
ResizeExact(img, nwidth, nheight) ==
    [img EXCEPT !.w = nwidth, !.h = nheight]

Resize(img, nwidth, nheight) ==
    LET d == ResizeDimensions(img.w, img.h, nwidth, nheight)
    IN  [img EXCEPT !.w = d[1], !.h = d[2]]

\* an absent bound read as Some(0)
ResizedUnwrapOrZero(img, original_width, original_height, options) ==
    Resize(img, UnwrapOr(options.max_width, 0), UnwrapOr(options.max_height, 0))

\* lines 209-220: the resize policy
Resized(img, original_width, original_height, options) ==
    IF IsSome(options.max_width) /\ IsSome(options.max_height)
    THEN Resize(img, Unwrap(options.max_width), Unwrap(options.max_height))
    ELSE IF IsSome(options.max_width)
    THEN LET max_width == Unwrap(options.max_width)
             new_height == TruncDiv(original_height * max_width, original_width)
         IN  Resize(img, max_width, new_height)
    ELSE IF IsSome(options.max_height)
    THEN LET max_height == Unwrap(options.max_height)
             new_width == TruncDiv(original_width * max_height, original_height)
         IN  Resize(img, new_width, max_height)
    ELSE img

\* JpegEncoder writes the sides into 16-bit fields of the frame header
JpegEncodable(img) == img.w < Limb /\ img.h < Limb

\* The byte length an encoder writes: a header and a body that grows with
\* the pixel count; the JPEG body shrinks as quality drops.  The encoders
\* never write an empty file.
JpegLen(img, quality) ==
    134 + ((3 * img.w * img.h) \div (101 - Max(1, Min(quality, 100))))
PngLen(img) == 57 + ((3 * img.w * img.h) \div 2)

\* general_purpose::STANDARD.encode: 4 characters per 3 bytes, padded
Base64Len(n) == 4 * ((n + 2) \div 3)

CompressedImageResult(data, format, width, height, size_bytes, compression_ratio) ==
    [tag |-> "ok", data |-> data, format |-> format, width |-> width,
     height |-> height, size_bytes |-> size_bytes,
     compression_ratio |-> compression_ratio]

\* the byte size of the decoded raster instead of the encoded input
RatioNumeratorRaster(l) == 3 * l.original_width * l.original_height

\* the numerator of compression_ratio (line 251)
RatioNumerator(l) == l.original_size

\* the match of lines 228-246 with the "webp" arm left out
MatchArmNoWebp(lower) ==
    CASE lower \in {"jpeg", "jpg"} -> "jpeg"
      [] lower = "png" -> "png"
      [] OTHER -> "other"

\* lines 228-246: the arm of the match that format.to_lowercase() takes
MatchArm(lower) ==
    CASE lower \in {"jpeg", "jpg"} -> "jpeg"
      [] lower = "png" -> "png"
      [] lower = "webp" -> "webp"
      [] OTHER -> "other"

\* lines 222-260: encode img and build the result; compression_ratio is the
\* fraction <<numerator, denominator>>
Encoded(l, options) ==
    LET format == UnwrapOr(options.format, "jpeg")
        quality == UnwrapOr(options.quality, 85)
        arm == MatchArm(ToLowercase(format))
        len == IF arm = "png" THEN PngLen(l.img) ELSE JpegLen(l.img, quality)
    IN  IF arm = "jpeg" /\ ~JpegEncodable(l.img) THEN Err(ErrJpeg)
        ELSE IF arm = "webp" THEN Err(ErrWebp)
        ELSE IF arm = "other" THEN Err(ErrFormat)
        ELSE CompressedImageResult(Base64Len(len), format, l.img.w, l.img.h,
                                   len, <<RatioNumerator(l), len>>)

(* ------------------- detect_receipt_contour: helpers ------------------- *)
\* w / h > p / q and w / h < p / q, for h, q > 0
RatioGt(w, h, p, q) == w * q > p * h
RatioLt(w, h, p, q) == w * q < p * h

\* the interval closed at both ends
IsReceiptLikeClosed(width, height) ==
    ~RatioLt(width, height, 3, 2) /\ ~RatioGt(width, height, 4, 1)

\* line 286: aspect_ratio > 1.5 && aspect_ratio < 4.0
IsReceiptLike(width, height) ==
    RatioGt(width, height, 3, 2) /\ RatioLt(width, height, 4, 1)

\* lines 288-312; confidence is the fraction <<tenths, 10>>
ReceiptContourResult(width, height) ==
    IF IsReceiptLike(width, height)
    THEN [tag |-> "ok", detected |-> TRUE, confidence |-> <<8, 10>>,
          corners |-> Some(<< <<0, 0>>, <<width, 0>>, <<width, height>>, <<0, height>> >>),
          bounding_box |-> Some(<<0, 0, width, height>>),
          angle |-> Some(0)]
    ELSE [tag |-> "ok", detected |-> FALSE, confidence |-> <<2, 10>>,
          corners |-> None, bounding_box |-> None, angle |-> None]

(* ------------------- analyze_image_quality: helpers -------------------- *)
\* line 338
Brightness(pixel) == (pixel[1] + pixel[2] + pixel[3]) \div 3

TopPixels(img) == (img.h \div 2) * img.w
BotPixels(img) == (img.h - (img.h \div 2)) * img.w
PixelCount(img) == img.w * img.h

\* the sum the loop of lines 337-341 adds up, as a mathematical integer
PixelSum(img) ==
    WAdd(WMul(Wide(TopPixels(img)), Brightness(img.top)),
         WMul(Wide(BotPixels(img)), Brightness(img.bot)))

\* total_brightness after the loop in a build without overflow checks
Accumulated(img) == WrapU32(PixelSum(img))

\* An f64 score of a call over total_pixels = n is the wide numerator of a
\* fraction with denominator ScoreScale * n.
ScoreScale == 30 * 255
ScoreDen(n) == WMul(Wide(n), ScoreScale)
\* the constant p / q, q a divisor of ScoreScale
Score(p, q, n) == WMul(Wide(n), (ScoreScale \div q) * p)

\* lines 343-346: (total_brightness / total_pixels / 255.0).min(1.0)
BrightnessScore(total_brightness, n) ==
    WMin(WMul(total_brightness, ScoreScale \div 255), Score(1, 1, n))
\* lines 347-348
SharpnessScore(n) == Score(7, 10, n)
ContrastScore(n) == Score(8, 10, n)
\* the sum halved instead of divided by the number of scores
OverallQualityHalf(b, s, c) == WDiv(WAdd(WAdd(b, s), c), 2)

\* line 350
OverallQuality(b, s, c) == WDiv(WAdd(WAdd(b, s), c), 3)

MsgTooDark == "Obraz jest zbyt ciemny. Sprobuj lepszego oswietlenia."
MsgOverexposed == "Obraz moze byc przeswietlony. Zmniejsz jasnosc."
MsgBlurry == "Obraz moze byc nieostry. Upewnij sie, ze aparat jest stabilny."
MsgLowContrast == "Kontrast jest niski. Sprobuj lepszego oswietlenia."
MsgGood == "Jakosc obrazu jest dobra."

\* lines 352-371
Recommendations(b, s, c, n) ==
    LET r1 == IF WLt(b, Score(3, 10, n)) THEN <<MsgTooDark>>
              ELSE IF WLt(Score(9, 10, n), b) THEN <<MsgOverexposed>>
              ELSE <<>>
        r2 == IF WLt(s, Score(5, 10, n)) THEN Append(r1, MsgBlurry) ELSE r1
        r3 == IF WLt(c, Score(5, 10, n)) THEN Append(r2, MsgLowContrast) ELSE r2
    IN  IF r3 = <<>> THEN <<MsgGood>> ELSE r3

\* lines 343-379
ImageQualityResult(total_brightness, n) ==
    LET brightness_score == BrightnessScore(total_brightness, n)
        sharpness_score == SharpnessScore(n)
        contrast_score == ContrastScore(n)
    IN  [tag |-> "ok",
         sharpness_score |-> sharpness_score,
         contrast_score |-> contrast_score,
         brightness_score |-> brightness_score,
         overall_quality |->
             OverallQuality(brightness_score, sharpness_score, contrast_score),
         den |-> ScoreDen(n),
         recommendations |->
             Recommendations(brightness_score, sharpness_score, contrast_score, n)]

(* ------------------------------ actions -------------------------------- *)
Start(c, o, a) ==
    /\ pc' = [pc EXCEPT ![c] = "decode"]
    /\ op' = [op EXCEPT ![c] = o]
    /\ arg' = [arg EXCEPT ![c] = a]
    /\ loc' = [loc EXCEPT ![c] = NoLocals]
    /\ ret' = [ret EXCEPT ![c] = NoReturn]
    /\ UNCHANGED <<overflowChecks, threads, request>>

InvokeCompress(c, Ps, Os) ==
    /\ pc[c] = "idle"
    /\ \E p \in Ps, o \in Os : Start(c, "compress_image", Args(p, o))

InvokeDetect(c, Ps) ==
    /\ pc[c] = "idle"
    /\ \E p \in Ps : Start(c, "detect_receipt_contour", Args(p, NoOptions))

InvokeAnalyze(c, Ps) ==
    /\ pc[c] = "idle"
    /\ \E p \in Ps : Start(c, "analyze_image_quality", Args(p, NoOptions))

\* the outcome is written to one slot all calls share
ReturnShared(c, r) ==
    /\ pc' = [pc EXCEPT ![c] = "done"]
    /\ ret' = [d \in Calls |-> r]
    /\ loc' = [loc EXCEPT ![c] = NoLocals]
    /\ UNCHANGED <<overflowChecks, op, arg, threads, request>>

\* the call returns r; its locals are dropped
Return(c, r) ==
    /\ pc' = [pc EXCEPT ![c] = "done"]
    /\ ret' = [ret EXCEPT ![c] = r]
    /\ loc' = [loc EXCEPT ![c] = NoLocals]
    /\ UNCHANGED <<overflowChecks, op, arg, threads, request>>

\* the caller takes the outcome of call c; nothing of the call is left
Finish(c) ==
    /\ pc[c] = "done"
    /\ pc' = [pc EXCEPT ![c] = "idle"]
    /\ op' = [op EXCEPT ![c] = "none"]
    /\ arg' = [arg EXCEPT ![c] = Args(BadBase64, NoOptions)]
    /\ ret' = [ret EXCEPT ![c] = NoReturn]
    /\ UNCHANGED <<overflowChecks, loc, threads, request>>

\* the call goes on to position p with locals l
Goto(c, p, l) ==
    /\ pc' = [pc EXCEPT ![c] = p]
    /\ loc' = [loc EXCEPT ![c] = l]
    /\ UNCHANGED <<overflowChecks, op, arg, ret, threads, request>>

\* The bodies of the three functions have no .await and hand nothing to
\* another thread (no spawn_blocking, no thread::spawn): from base64 decoding
\* to the return the body runs inside one poll, on the thread that polls
\* the future.
HoldsThread(c) ==
    pc[c] \in {"load", "resize", "encode", "classify", "scan", "score"}

\* the threads that are inside a poll
Busy ==
    Cardinality({c \in Calls : HoldsThread(c)}) + (IF request = "running" THEN 1 ELSE 0)

FreeThread == Busy < threads

\* general_purpose::STANDARD.decode(image_data)
DecodeBase64(c) ==
    /\ pc[c] = "decode"
    /\ FreeThread
    /\ IF arg[c].image_data.kind = "badb64"
       THEN Return(c, Err(ErrBase64))
       ELSE Goto(c, "load", [loc[c] EXCEPT !.image_bytes = arg[c].image_data.size])

\* the raster of call c
LoadedRaster(c) == loc[c].img

\* image::load_from_memory(&image_bytes), and in compress_image lines 205-207
LoadImage(c) ==
    /\ pc[c] = "load"
    /\ IF arg[c].image_data.kind = "notimage"
       THEN Return(c, Err(ErrLoad))
       ELSE LET img == arg[c].image_data.img IN
            CASE op[c] = "compress_image" ->
                   Goto(c, "resize",
                        [loc[c] EXCEPT !.img = img,
                                       !.original_width = img.w,
                                       !.original_height = img.h,
                                       !.original_size = loc[c].image_bytes])
              [] op[c] = "detect_receipt_contour" ->
                   Goto(c, "classify", [loc[c] EXCEPT !.img = img])
              [] OTHER ->
                   Goto(c, "scan", [loc[c] EXCEPT !.img = img])

\* compress_image, lines 209-220
ResizeImage(c) ==
    /\ pc[c] = "resize"
    /\ Goto(c, "encode",
            [loc[c] EXCEPT !.img = Resized(LoadedRaster(c), loc[c].original_width,
                                           loc[c].original_height, arg[c].options)])

\* compress_image, lines 222-260
Encode(c) ==
    /\ pc[c] = "encode"
    /\ Return(c, Encoded([loc[c] EXCEPT !.img = LoadedRaster(c)], arg[c].options))

\* detect_receipt_contour, lines 277-312
Classify(c) ==
    /\ pc[c] = "classify"
    /\ Return(c, ReceiptContourResult(LoadedRaster(c).w, LoadedRaster(c).h))

\* analyze_image_quality, lines 329-341: the pixel loop.  total_brightness
\* only grows, so an add overflows in the loop exactly when the whole sum
\* does not fit a u32; the build decides between a panic and a wrap.
Scan(c) ==
    /\ pc[c] = "scan"
    /\ IF ~FitsU32(PixelSum(LoadedRaster(c))) /\ overflowChecks
       THEN Return(c, Panicked)
       ELSE Goto(c, "score",
                 [loc[c] EXCEPT !.total_brightness = Accumulated(LoadedRaster(c)),
                                !.total_pixels = PixelCount(LoadedRaster(c))])

\* analyze_image_quality, lines 343-379
ScoreImage(c) ==
    /\ pc[c] = "score"
    /\ Return(c, ImageQualityResult(loc[c].total_brightness, loc[c].total_pixels))

Step(c) ==
    \/ DecodeBase64(c)
    \/ LoadImage(c)
    \/ ResizeImage(c)
    \/ Encode(c)
    \/ Classify(c)
    \/ Scan(c)
    \/ ScoreImage(c)
    \/ Finish(c)

\* one caller, every input
Next ==
    \E c \in Serial :
        \/ InvokeCompress(c, Payloads, AllOptions)
        \/ InvokeDetect(c, Payloads)
        \/ InvokeAnalyze(c, Payloads)
        \/ Step(c)

Spec == Init /\ [][Next]_vars

\* NumCalls callers at once, a few inputs
NextConc ==
    \E c \in Calls :
        \/ InvokeCompress(c, FewPayloads, FewOptions)
        \/ InvokeDetect(c, FewPayloads)
        \/ InvokeAnalyze(c, FewPayloads)
        \/ Step(c)

SpecConc == Init /\ [][NextConc]_vars

\* an unrelated request (show_system_notification) comes in on the path
SubmitRequest ==
    /\ request = "none"
    /\ request' = "submitted"
    /\ UNCHANGED <<overflowChecks, pc, op, arg, loc, ret, threads>>

\* a thread of the path takes it up
StartRequest ==
    /\ request = "submitted"
    /\ FreeThread
    /\ request' = "running"
    /\ UNCHANGED <<overflowChecks, pc, op, arg, loc, ret, threads>>

\* it is done, and the thread is free again
CompleteRequest ==
    /\ request = "running"
    /\ request' = "done"
    /\ UNCHANGED <<overflowChecks, pc, op, arg, loc, ret, threads>>

\* its caller takes the answer
TakeRequest ==
    /\ request = "done"
    /\ request' = "none"
    /\ UNCHANGED <<overflowChecks, pc, op, arg, loc, ret, threads>>

\* the callers and the unrelated request on a single-threaded event path
NextEvent ==
    \/ \E c \in Calls :
           \/ InvokeCompress(c, FewPayloads, FewOptions)
           \/ InvokeDetect(c, FewPayloads)
           \/ InvokeAnalyze(c, FewPayloads)
           \/ Step(c)
    \/ SubmitRequest
    \/ StartRequest
    \/ CompleteRequest
    \/ TakeRequest

SpecEvent == InitEvent /\ [][NextEvent]_vars

(* ------------------------------ claims --------------------------------- *)
Done(c, o) == pc[c] = "done" /\ op[c] = o
Decodable(c) == arg[c].image_data.kind = "image"
Input(c) == arg[c].image_data.img
Options(c) == arg[c].options
Succeeded(c) == ret[c].tag = "ok"
Abs(x) == IF x < 0 THEN 0 - x ELSE x

\* the format the call asks for, lower-cased
AskedFormat(c) == ToLowercase(UnwrapOr(Options(c).format, "jpeg"))
\* the format is one the match encodes
SupportedFormat(c) == AskedFormat(c) \in {"jpeg", "jpg", "png"}

\* a finished compress_image call on a decodable image with both bounds
\* set to at least 1 and a supported format
BothBounds(c) ==
    /\ Done(c, "compress_image") /\ Decodable(c) /\ SupportedFormat(c)
    /\ IsSome(Options(c).max_width) /\ Unwrap(Options(c).max_width) >= 1
    /\ IsSome(Options(c).max_height) /\ Unwrap(Options(c).max_height) >= 1

OnlyWidth(c) ==
    /\ Done(c, "compress_image") /\ Decodable(c) /\ Succeeded(c)
    /\ IsSome(Options(c).max_width) /\ Unwrap(Options(c).max_width) >= 1
    /\ ~IsSome(Options(c).max_height)

\* the same with only max_height (>= 1) set
OnlyHeight(c) ==
    /\ Done(c, "compress_image") /\ Decodable(c) /\ Succeeded(c)
    /\ IsSome(Options(c).max_height) /\ Unwrap(Options(c).max_height) >= 1
    /\ ~IsSome(Options(c).max_width)

\* C2: with only max_width = W set the result has width = W and a height
\* within one pixel of round(h * W / w); with only max_height = H set it has
\* height = H and a width within one pixel of round(w * H / h).
C2_OneBound ==
    \A c \in Calls :
        /\ OnlyWidth(c) =>
              LET W == Unwrap(Options(c).max_width) IN
              /\ ret[c].width = W
              /\ Abs(ret[c].height - RoundDiv(Input(c).h * W, Input(c).w)) <= 1
        /\ OnlyHeight(c) =>
              LET H == Unwrap(Options(c).max_height) IN
              /\ ret[c].height = H
              /\ Abs(ret[c].width - RoundDiv(Input(c).w * H, Input(c).h)) <= 1

\* a finished compress_image call that asked for "webp"
AskedWebp(c) == Done(c, "compress_image") /\ Options(c).format = Some("webp")

\* C3 as stated: a call with format "webp" fails with the unsupported-format
\* error whatever image_data is.
C3_WebpAlwaysUnsupported ==
    \A c \in Calls : AskedWebp(c) => ret[c] = Err(ErrWebp)

\* C3 amended: a call with format "webp" never succeeds; it fails with the
\* unsupported-format error when image_data decodes to an image, with the
\* base64 error when image_data is not base64 and with the image-load error
\* when the bytes are not an image.
C3_WebpFails ==
    \A c \in Calls :
        AskedWebp(c) =>
            /\ ret[c].tag = "err"
            /\ Decodable(c) => ret[c] = Err(ErrWebp)
            /\ arg[c].image_data.kind = "badb64" => ret[c] = Err(ErrBase64)
            /\ arg[c].image_data.kind = "notimage" => ret[c] = Err(ErrLoad)

\* a "webp" call on a decodable image has failed as unsupported
C3_Witness ==
    \E c \in Calls : AskedWebp(c) /\ Decodable(c) /\ ret[c] = Err(ErrWebp)

DecodeErrors == {ErrBase64, ErrLoad}
UnsupportedErrors == {ErrWebp, ErrFormat}
EncodeErrors == {ErrJpeg, ErrPng}

\* the fields of the three result structs, with the tag of the Result
CompressedFields ==
    {"tag", "data", "format", "width", "height", "size_bytes", "compression_ratio"}
ContourFields ==
    {"tag", "detected", "confidence", "corners", "bounding_box", "angle"}
QualityFields ==
    {"tag", "sharpness_score", "contrast_score", "brightness_score",
     "overall_quality", "den", "recommendations"}

ResultFields(o) ==
    CASE o = "compress_image" -> CompressedFields
      [] o = "detect_receipt_contour" -> ContourFields
      [] OTHER -> QualityFields

\* C4: every finished call has returned either a complete result or an
\* error string and nothing else; a payload that is not base64 or not an
\* image gives a decode error, a format other than jpeg/jpg/png (on a
\* decodable image) an unsupported-format error, an encoder failure an
\* encode error.
C4_ResultOrError ==
    \A c \in Calls :
        pc[c] = "done" =>
            /\ ret[c].tag \in {"ok", "err"}
            /\ ret[c].tag = "ok" => DOMAIN ret[c] = ResultFields(op[c])
            /\ ret[c].tag = "err" => DOMAIN ret[c] = {"tag", "msg"}
            /\ ~Decodable(c) => ret[c].tag = "err" /\ ret[c].msg \in DecodeErrors
            /\ (op[c] = "compress_image" /\ Decodable(c) /\ ~SupportedFormat(c)) =>
                   ret[c].tag = "err" /\ ret[c].msg \in UnsupportedErrors
            /\ (ret[c].tag = "err" /\ Decodable(c) /\ SupportedFormat(c)) =>
                   ret[c].msg \in EncodeErrors

\* C5: a successful compress_image call returns compression_ratio =
\* (byte length of the decoded input payload) / (byte length of the output),
\* size_bytes = that output length (data is its base64 text), and a ratio
\* greater than 0.
C5_CompressionRatio ==
    \A c \in Calls :
        (Done(c, "compress_image") /\ Succeeded(c)) =>
            /\ ret[c].compression_ratio = <<arg[c].image_data.size, ret[c].size_bytes>>
            /\ ret[c].data = Base64Len(ret[c].size_bytes)
            /\ ret[c].compression_ratio[1] > 0
            /\ ret[c].compression_ratio[2] > 0

\* a successful compress_image call whose output is larger than its input
\* (ratio below 1) although the raster has fewer bytes than the input file
C5_Witness ==
    \E c \in Calls :
        /\ Done(c, "compress_image") /\ Succeeded(c)
        /\ ret[c].compression_ratio[1] < ret[c].compression_ratio[2]
        /\ 3 * Input(c).w * Input(c).h < arg[c].image_data.size

\* C6: detect_receipt_contour on a decodable width x height image returns
\* detected = TRUE exactly when 1.5 < width / height < 4.0 (both strict);
\* then confidence 0.8, the four image corners in order, bounding_box
\* (0, 0, width, height) and angle 0; otherwise confidence 0.2 and corners,
\* bounding_box and angle absent.
C6_Contour ==
    \A c \in Calls :
        (Done(c, "detect_receipt_contour") /\ Decodable(c)) =>
            LET width == Input(c).w
                height == Input(c).h
            IN  /\ Succeeded(c)
                /\ ret[c].detected = (2 * width > 3 * height /\ width < 4 * height)
                /\ ret[c].detected =>
                      /\ ret[c].confidence = <<8, 10>>
                      /\ ret[c].corners =
                            Some(<< <<0, 0>>, <<width, 0>>, <<width, height>>, <<0, height>> >>)
                      /\ ret[c].bounding_box = Some(<<0, 0, width, height>>)
                      /\ ret[c].angle = Some(0)
                /\ ~ret[c].detected =>
                      /\ ret[c].confidence = <<2, 10>>
                      /\ ret[c].corners = None
                      /\ ret[c].bounding_box = None
                      /\ ret[c].angle = None
                /\ (IsSome(ret[c].corners) /\ IsSome(ret[c].bounding_box)) = ret[c].detected

\* an image of ratio exactly 1.5 was classified as not a receipt
C6_Witness ==
    \E c \in Calls :
        /\ Done(c, "detect_receipt_contour") /\ Decodable(c)
        /\ 2 * Input(c).w = 3 * Input(c).h
        /\ Succeeded(c) /\ ~ret[c].detected

\* the image is of one colour
AllOf(c, colour) == Input(c).top = colour /\ Input(c).bot = colour

\* the returned score r is below / above the fraction p / q
ScoreBelow(r, p, q, den) == WLt(WMul(r, q), WMul(den, p))
ScoreAbove(r, p, q, den) == WLt(WMul(den, p), WMul(r, q))

\* the messages the returned scores trigger, in the fixed order
Triggered(r) ==
    LET dark == IF ScoreBelow(r.brightness_score, 3, 10, r.den)
                THEN <<MsgTooDark>> ELSE <<>>
        over == IF ScoreAbove(r.brightness_score, 9, 10, r.den)
                THEN <<MsgOverexposed>> ELSE <<>>
        blur == IF ScoreBelow(r.sharpness_score, 5, 10, r.den)
                THEN <<MsgBlurry>> ELSE <<>>
        cont == IF ScoreBelow(r.contrast_score, 5, 10, r.den)
                THEN <<MsgLowContrast>> ELSE <<>>
    IN  dark \o over \o blur \o cont

Contains(seq, m) == \E i \in DOMAIN seq : seq[i] = m

\* C7: the recommendations of analyze_image_quality are never empty and are
\* the triggered messages in the order too-dark, overexposed, blurry,
\* low-contrast, or the single good-quality message when none triggered; an
\* all-white image gets the overexposed message, an all-black image the
\* too-dark message, a mid-gray image exactly the good-quality message.
C7_Recommendations ==
    \A c \in Calls :
        (Done(c, "analyze_image_quality") /\ Succeeded(c)) =>
            /\ ret[c].recommendations # <<>>
            /\ ret[c].recommendations =
                  (IF Triggered(ret[c]) = <<>> THEN <<MsgGood>> ELSE Triggered(ret[c]))
            /\ AllOf(c, White) => Contains(ret[c].recommendations, MsgOverexposed)
            /\ AllOf(c, Black) => Contains(ret[c].recommendations, MsgTooDark)
            /\ AllOf(c, Gray) => ret[c].recommendations = <<MsgGood>>

\* the score of the true mean of the per-pixel (R + G + B) / 3 over the
\* pixels of img, over 255 and capped at 1
TrueBrightnessScore(img) ==
    WMin(WMul(PixelSum(img), ScoreScale \div 255), Score(1, 1, PixelCount(img)))

\* C8: for a decodable image of any pixel count analyze_image_quality
\* returns brightness_score = min(mean / 255, 1) for the true mean of the
\* per-pixel brightness; the u32 sum never overflows and the divisor is
\* not zero.
C8_TrueMean ==
    \A c \in Calls :
        (Done(c, "analyze_image_quality") /\ Decodable(c)) =>
            /\ Succeeded(c)
            /\ ret[c].den # Wide(0)
            /\ ret[c].brightness_score = TrueBrightnessScore(Input(c))

\* C9: a successful analyze_image_quality call returns overall_quality =
\* (brightness_score + sharpness_score + contrast_score) / 3 of the scores
\* in the same result, sharpness_score = 0.7, contrast_score = 0.8, and all
\* four scores in [0, 1].
C9_OverallIsMean ==
    \A c \in Calls :
        (Done(c, "analyze_image_quality") /\ Succeeded(c)) =>
            LET r == ret[c]
                InUnit(x) == ~WLt(x, Wide(0)) /\ ~WLt(r.den, x)
            IN  /\ WMul(r.overall_quality, 3) =
                      WAdd(WAdd(r.brightness_score, r.sharpness_score), r.contrast_score)
                /\ WMul(r.sharpness_score, 10) = WMul(r.den, 7)
                /\ WMul(r.contrast_score, 10) = WMul(r.den, 8)
                /\ InUnit(r.brightness_score) /\ InUnit(r.sharpness_score)
                /\ InUnit(r.contrast_score) /\ InUnit(r.overall_quality)

\* a successful analysis of an image that is neither black nor saturated:
\* the brightness score is strictly between 0 and 1
C9_Witness ==
    \E c \in Calls :
        /\ Done(c, "analyze_image_quality") /\ Succeeded(c)
        /\ WLt(Wide(0), ret[c].brightness_score)
        /\ WLt(ret[c].brightness_score, ret[c].den)
        /\ Input(c).top # Input(c).bot

\* what each operation returns for its arguments when it runs alone in a
\* build with overflow checks `checks`
CompressOutcome(a) ==
    LET p == a.image_data IN
    IF p.kind = "badb64" THEN Err(ErrBase64)
    ELSE IF p.kind = "notimage" THEN Err(ErrLoad)
    ELSE Encoded(Locals(p.size, p.size,
                        Resized(p.img, p.img.w, p.img.h, a.options),
                        p.img.w, p.img.h, Wide(0), 0),
                 a.options)

DetectOutcome(a) ==
    LET p == a.image_data IN
    IF p.kind = "badb64" THEN Err(ErrBase64)
    ELSE IF p.kind = "notimage" THEN Err(ErrLoad)
    ELSE ReceiptContourResult(p.img.w, p.img.h)

AnalyzeOutcome(a, checks) ==
    LET p == a.image_data IN
    IF p.kind = "badb64" THEN Err(ErrBase64)
    ELSE IF p.kind = "notimage" THEN Err(ErrLoad)
    ELSE IF ~FitsU32(PixelSum(p.img)) /\ checks THEN Panicked
    ELSE ImageQualityResult(Accumulated(p.img), PixelCount(p.img))

Outcome(o, a, checks) ==
    CASE o = "compress_image" -> CompressOutcome(a)
      [] o = "detect_receipt_contour" -> DetectOutcome(a)
      [] OTHER -> AnalyzeOutcome(a, checks)

\* C10: whatever the other calls do or did, a finished call has returned
\* the outcome its own arguments give when it runs alone, and a call that
\* has not returned has no outcome.
C10_OwnArgumentsOnly ==
    \A c \in Calls :
        /\ pc[c] = "done" => ret[c] = Outcome(op[c], arg[c], overflowChecks)
        /\ pc[c] # "done" => ret[c] = NoReturn

\* two calls of different operations have both finished, the first with an
\* error and the second with a result
C10_Witness ==
    \E c \in Calls, d \in Calls :
        /\ c # d /\ pc[c] = "done" /\ pc[d] = "done"
        /\ op[c] # op[d]
        /\ ret[c].tag = "err" /\ ret[d].tag = "ok"

\* a finished compress_image call on a decodable image with neither bound
NoBounds(c) ==
    /\ Done(c, "compress_image") /\ Decodable(c)
    /\ ~IsSome(Options(c).max_width) /\ ~IsSome(Options(c).max_height)

\* C12: with neither max_width nor max_height the image is not resized: for
\* a supported format the result has the width and height of the decoded
\* input (or the JPEG encoder refused the input's size); with quality and
\* format absent too the image is encoded as JPEG at quality 85 and the
\* result's format is "jpeg".
C12_NoResizeDefaults ==
    \A c \in Calls :
        /\ (NoBounds(c) /\ SupportedFormat(c)) =>
              \/ /\ Succeeded(c)
                 /\ ret[c].width = Input(c).w
                 /\ ret[c].height = Input(c).h
              \/ /\ ~JpegEncodable(Input(c))
                 /\ ret[c] = Err(ErrJpeg)
        /\ (NoBounds(c) /\ Succeeded(c)
              /\ ~IsSome(Options(c).quality) /\ ~IsSome(Options(c).format)) =>
              /\ ret[c].format = "jpeg"
              /\ ret[c].size_bytes = JpegLen(Input(c), 85)

\* a call with no option set has returned a 300 x 150 image as JPEG, whose
\* length at quality 85 is not the length at the other quality of the model
C12_Witness ==
    \E c \in Calls :
        /\ NoBounds(c) /\ Succeeded(c) /\ Options(c) = NoOptions
        /\ ret[c].width = 300 /\ ret[c].height = 150
        /\ ret[c].size_bytes # JpegLen(Input(c), 10)

\* C11: the work of the image operations is off the thread that polls the
\* request: on a single-threaded event path, whenever an image call is
\* between its start and its return and an unrelated request has been
\* submitted, the request can be taken up (a thread of the path is free).
C11_Offloaded ==
    \A c \in Calls :
        (threads = 1 /\ HoldsThread(c) /\ request = "submitted") => FreeThread

====
